---- MODULE Spec2Model ----
(***************************************************************************)
(* A model of the three document-extraction programs of the repository:    *)
(*   app.py                 the Streamlit form (AIDocumentExtractor)        *)
(*   ai_extractor.py        the command-line Gemini extractor               *)
(*   document_extractor.py  the command-line regular-expression extractor   *)
(*                                                                         *)
(* A Python str is modelled as a sequence of one-character strings, so     *)
(* that regular expressions, strptime and strftime are computed character  *)
(* by character.  Str turns such a sequence into a TLA+ string, which is   *)
(* how keys, values and comments of the extracted records are shown.       *)
(***************************************************************************)
EXTENDS Integers, Sequences, FiniteSets, TLC

VARIABLES
    GEMINI_API_KEY,    \* os.getenv("GEMINI_API_KEY") is set (TRUE) or not
    \* ---- app.py: one Streamlit server, several browser sessions
    pdf_uploader,      \* per session: the uploaded file, or None
    use_ai_checkbox,   \* per session: the "Enable Gemini AI Extraction" box
    session_state,     \* per session: st.session_state, a function on the keys present
    cache_data,        \* the st.cache_data store of the process (all sessions)
    rendered,          \* per session: what the last script pass put on the page
    last_run,          \* per session: what the run block of the last pass did
    cache_origin,      \* history: which session and text filled each cache entry
    cleared,           \* history: per session, Clear clicked and no Gemini step since
    \* ---- ai_extractor.py: one run of the command-line driver
    cli,               \* pc, argv, the extractor's fields, stdout, the file written
    \* ---- document_extractor.py: one run of the command-line driver
    dex                \* pc, the file, the extractor's fields, stdout, the file written

appVars == <<pdf_uploader, use_ai_checkbox, session_state, cache_data,
             rendered, last_run, cache_origin, cleared>>

vars == <<GEMINI_API_KEY, appVars, cli, dex>>

None == "None"

\* The browser sessions connected to the one Streamlit server process.
Sessions == {1, 2}

\* ------------------------------------------------------------------ strings
RECURSIVE Str(_)
\* ''.join(chars): the TLA+ string spelled by a sequence of characters.
Str(cs) ==
    IF cs = <<>> THEN ""
    ELSE IF Len(cs) = 1 THEN cs[1]
    ELSE Str(SubSeq(cs, 1, Len(cs) \div 2))
         \o Str(SubSeq(cs, (Len(cs) \div 2) + 1, Len(cs)))

NL == "\n"

\* ------------------------------------------------------------------ PDF files
\* What PyPDF2 makes of a file: it cannot be read (PdfReader or
\* extract_text raises), or it has pages, each with its extracted text
\* ('' for a page without extractable text).
\* NoFile is the uploader's None and a path at which no file exists.
NoFile == [exists |-> FALSE, readable |-> FALSE, pages |-> <<>>]
CorruptPdf == [exists |-> TRUE, readable |-> FALSE, pages |-> <<>>]
NoPagesPdf == [exists |-> TRUE, readable |-> TRUE, pages |-> <<>>]
BlankPdf == [exists |-> TRUE, readable |-> TRUE, pages |-> << <<>> >>]
PdfA == [exists |-> TRUE, readable |-> TRUE, pages |-> << <<"a">> >>]
PdfB == [exists |-> TRUE, readable |-> TRUE, pages |-> << <<"b">>, <<>>, <<"c">> >>]

UploadedFiles == {CorruptPdf, BlankPdf, PdfA, PdfB}

RECURSIVE JoinPagesNewline(_)
\* for page in pages: page_text = page.extract_text();
\*                    if page_text: text += page_text + "\n"
JoinPagesNewline(pages) ==
    IF pages = <<>> THEN <<>>
    ELSE (IF Head(pages) # <<>> THEN Head(pages) \o <<NL>> ELSE <<>>)
         \o JoinPagesNewline(Tail(pages))

\* AIDocumentExtractor.extract_text_from_pdf of app.py and of ai_extractor.py:
\* the returned text, the new self.text_content (assigned only when the
\* whole read succeeded) and the message on the error channel.
ReadPdfNewline(file, text_content) ==
    IF file.readable
    THEN [ret |-> JoinPagesNewline(file.pages),
          text_content |-> JoinPagesNewline(file.pages),
          msgs |-> {}]
    ELSE [ret |-> <<>>, text_content |-> text_content,
          msgs |-> {"Error reading PDF"}]

\* ------------------------------------------------------------------ tables
\* A pandas DataFrame: its column labels and its rows (tuples of cells).
EmptyDataFrame == [columns |-> <<>>, rows |-> <<>>]

\* df.empty
IsEmptyDf(df) == df.rows = <<>> \/ df.columns = <<>>

RecordColumns == {"key", "value", "comments"}

\* The column labels pd.DataFrame(list_of_dicts) finds: the union of the keys.
DictKeys(data) == UNION {DOMAIN data[i] : i \in 1..Len(data)}

\* df = pd.DataFrame(extracted_data)
\* if not df.empty:
\*     df = df[['key', 'value', 'comments']]     (KeyError on a missing column)
\*     df.insert(0, '#', range(1, len(df) + 1))
\*     df.columns = ['#', 'Key', 'Value', 'Comments']
\* A dict lacking one of the columns gives a NaN cell.
Cell(rec, col) == IF col \in DOMAIN rec THEN rec[col] ELSE "NaN"

BuildTableAI(data) ==
    IF data = <<>>
    THEN [exc |-> None, df |-> EmptyDataFrame]
    ELSE IF ~(RecordColumns \subseteq DictKeys(data))
    THEN [exc |-> "KeyError", df |-> EmptyDataFrame]
    ELSE [exc |-> None,
          df |-> [columns |-> <<"#", "Key", "Value", "Comments">>,
                  rows |-> [i \in 1..Len(data) |->
                              <<i, Cell(data[i], "key"), Cell(data[i], "value"),
                                Cell(data[i], "comments")>>]]]

\* ------------------------------------------------------------------ Gemini
\* The remote model's answer to the prompt that embeds the text verbatim
\* (temperature 0.0): one record per character of the document, each
\* quoting the document in its comments.
AnswerFor(text) ==
    [i \in 1..Len(text) |->
        [key |-> "Character", value |-> text[i], comments |-> Str(text)]]

\* A JSON array whose objects lack the "comments" field.
MalformedAnswer == << [key |-> "Character", value |-> "?"] >>

\* How one execution of extract_with_gemini's body can go.
GeminiOutcomes ==
    {"client_error", "api_error", "json_error", "other_error", "records",
     "empty_array", "malformed"}

\* genai.Client() raises without a credential.
OutcomesWith(key) == IF key THEN GeminiOutcomes ELSE {"client_error"}

\* ------------------------------------------------------------------ app.py
\* AIDocumentExtractor.extract_with_gemini of app.py, the decorated body:
\* the returned list, the st.error messages, whether genai.Client() was
\* built and whether generate_content was called.
ExtractWithGeminiApp(text, outcome) ==
    CASE outcome = "client_error" ->
            [ret |-> <<>>, msgs |-> {}, client |-> FALSE, remote |-> FALSE]
      [] outcome = "api_error" ->
            [ret |-> <<>>, msgs |-> {"Gemini API Error"},
             client |-> TRUE, remote |-> TRUE]
      [] outcome = "json_error" ->
            [ret |-> <<>>, msgs |-> {"AI response was not valid JSON"},
             client |-> TRUE, remote |-> TRUE]
      [] outcome = "other_error" ->
            [ret |-> <<>>, msgs |-> {"An unexpected error occurred during AI processing"},
             client |-> TRUE, remote |-> TRUE]
      [] outcome = "records" ->
            [ret |-> AnswerFor(text), msgs |-> {}, client |-> TRUE, remote |-> TRUE]
      [] outcome = "empty_array" ->
            [ret |-> <<>>, msgs |-> {}, client |-> TRUE, remote |-> TRUE]
      [] outcome = "malformed" ->
            [ret |-> MalformedAnswer, msgs |-> {}, client |-> TRUE, remote |-> TRUE]

\* The key st.cache_data computes for a call extract_with_gemini(_self):
\* the function's identity and the hash of its arguments, leaving out the
\* arguments whose name starts with an underscore.  _self is the only one.
CacheKey(text) == "AIDocumentExtractor.extract_with_gemini"

\* @st.cache_data: a stored entry is returned (and its st elements are
\* replayed) without running the body; otherwise the body runs and its
\* return value is stored.
CacheMiss(cache, k, r) ==
    [ret |-> r.ret, msgs |-> r.msgs, hit |-> FALSE,
     client |-> r.client, remote |-> r.remote,
     cache |-> (k :> [ret |-> r.ret, msgs |-> r.msgs]) @@ cache]

CachedExtractWithGemini(cache, text, outcome) ==
    IF CacheKey(text) \in DOMAIN cache
    THEN [ret |-> cache[CacheKey(text)].ret, msgs |-> cache[CacheKey(text)].msgs,
          hit |-> TRUE, client |-> FALSE, remote |-> FALSE, cache |-> cache]
    ELSE CacheMiss(cache, CacheKey(text), ExtractWithGeminiApp(text, outcome))

\* AIDocumentExtractor.process_document of app.py on a fresh extractor.
\*     if self.use_ai and self.text_content:
\*         extracted_data = self.extract_with_gemini()
\*     else:
\*         extracted_data = []
ExtractionStepApp(use_ai, text, cache, outcome) ==
    IF use_ai /\ text # <<>>
    THEN CachedExtractWithGemini(cache, text, outcome)
    ELSE [ret |-> <<>>, msgs |-> {}, hit |-> FALSE, client |-> FALSE,
          remote |-> FALSE, cache |-> cache]

\* What process_document leaves, given what the reader (rd) and the
\* extraction step (ex) answered; outcome records how the body of
\* extract_with_gemini went, "none" when it was not executed.
Processed(use_ai, rd, ex, outcome) ==
    [text_content |-> rd.text_content, msgs |-> rd.msgs \cup ex.msgs,
     outcome |-> IF use_ai /\ rd.text_content # <<>> /\ ~ex.hit
                 THEN outcome ELSE "none",
     exc |-> BuildTableAI(ex.ret).exc, df |-> BuildTableAI(ex.ret).df,
     data |-> ex.ret,
     called |-> use_ai /\ rd.text_content # <<>>, hit |-> ex.hit,
     client |-> ex.client, remote |-> ex.remote, cache |-> ex.cache]

ProcessRead(use_ai, cache, outcome, rd) ==
    Processed(use_ai, rd,
              ExtractionStepApp(use_ai, rd.text_content, cache, outcome), outcome)

ProcessDocumentApp(file, use_ai, cache, outcome) ==
    ProcessRead(use_ai, cache, outcome, ReadPdfNewline(file, <<>>))

\* convert_df_to_excel: the bytes of a one-sheet workbook.
convert_df_to_excel(df) ==
    [sheet |-> "Extracted Data", header |-> df.columns, rows |-> df.rows]

Has(ss, k) == k \in DOMAIN ss

Put(ss, k, v) == (k :> v) @@ ss

Del(ss, k) == [x \in DOMAIN ss \ {k} |-> ss[x]]

\* check_api_key at the top of the script.
KeyBanner == IF GEMINI_API_KEY THEN {} ELSE {"GEMINI_API_KEY not found"}

\* What a pass without an extraction run leaves in last_run.
NoRun ==
    [ran |-> FALSE, text |-> <<>>, use_ai |-> FALSE, called |-> FALSE,
     hit |-> FALSE, client |-> FALSE, remote |-> FALSE, exc |-> None,
     data |-> <<>>, df |-> EmptyDataFrame, outcome |-> "none",
     hit_origin |-> [session |-> 0, text |-> <<>>]]

\* The "Extract Data" button handler without its credential check.
ExtractButtonUnchecked(ss, file, use_ai) ==
    IF file = NoFile
    THEN [stop |-> TRUE, msgs |-> {"Please upload a PDF file"}, ss |-> ss]
    ELSE [stop |-> FALSE, msgs |-> {}, ss |-> Put(ss, "run_extraction", TRUE)]

\* The "Extract Data" button handler: st.stop() ends the pass at once.
ExtractButton(ss, file, use_ai) ==
    IF file = NoFile
    THEN [stop |-> TRUE, msgs |-> {"Please upload a PDF file"}, ss |-> ss]
    ELSE IF ~GEMINI_API_KEY /\ use_ai
    THEN [stop |-> TRUE,
          msgs |-> {"Cannot run AI extraction without the GEMINI_API_KEY"},
          ss |-> ss]
    ELSE [stop |-> FALSE, msgs |-> {}, ss |-> Put(ss, "run_extraction", TRUE)]

\* The "Clear Results" button handler, up to st.rerun().
ClearButton(ss) ==
    Del(Del(Del(ss, "extracted_df"), "run_extraction"), "extractor_instance")

\* st.cache_data.clear()
ClearedCache(cache) == <<>>

\* The try block with an except branch that forgets the flag.
RunEndFlagLeftOnError(ss1, p, run) ==
    IF p.exc # None
    THEN [ss |-> ss1,
          msgs |-> p.msgs \cup {"An error occurred during file processing"},
          cache |-> p.cache, run |-> run]
    ELSE IF ~IsEmptyDf(p.df)
    THEN [ss |-> Put(Put(ss1, "extracted_df", p.df), "run_extraction", FALSE),
          msgs |-> p.msgs \cup {"Extraction Complete"},
          cache |-> p.cache, run |-> run]
    ELSE [ss |-> Put(ss1, "run_extraction", FALSE),
          msgs |-> p.msgs \cup {"No structured data could be extracted"},
          cache |-> p.cache, run |-> run]

\* The execution block: if run_extraction is set, build an extractor from
\* the widgets, keep it in the session, run the pipeline and store the
\* table when it has rows.
\* The three ways the try block ends, on the session state ss1 that holds
\* the extractor; run is the record kept of the run.
RunEnd(ss1, p, run) ==
    IF p.exc # None
    THEN [ss |-> Put(ss1, "run_extraction", FALSE),
          msgs |-> p.msgs \cup {"An error occurred during file processing"},
          cache |-> p.cache, run |-> run]
    ELSE IF ~IsEmptyDf(p.df)
    THEN [ss |-> Put(Put(ss1, "extracted_df", p.df), "run_extraction", FALSE),
          msgs |-> p.msgs \cup {"Extraction Complete"},
          cache |-> p.cache, run |-> run]
    ELSE [ss |-> Put(ss1, "run_extraction", FALSE),
          msgs |-> p.msgs \cup {"No structured data could be extracted"},
          cache |-> p.cache, run |-> run]

RunWith(ss, file, use_ai, p) ==
    RunEnd(Put(ss, "extractor_instance",
               [uploaded_file |-> file, text_content |-> p.text_content,
                use_ai |-> use_ai]),
           p,
           [ran |-> TRUE, text |-> p.text_content, use_ai |-> use_ai,
            called |-> p.called, hit |-> p.hit, client |-> p.client,
            remote |-> p.remote, exc |-> p.exc, data |-> p.data, df |-> p.df,
            outcome |-> p.outcome,
            hit_origin |-> IF p.hit THEN cache_origin[CacheKey(p.text_content)]
                           ELSE NoRun.hit_origin])

RunBlock(ss, file, use_ai, cache, outcome) ==
    IF ~(Has(ss, "run_extraction") /\ ss["run_extraction"])
    THEN [ss |-> ss, msgs |-> {}, cache |-> cache, run |-> NoRun]
    ELSE RunWith(ss, file, use_ai, ProcessDocumentApp(file, use_ai, cache, outcome))

NoPayload == [sheet |-> "", header |-> <<>>, rows |-> <<>>]

NothingShown ==
    [shown |-> FALSE, table |-> EmptyDataFrame, download |-> NoPayload,
     raw |-> [widget |-> "none", text |-> <<>>]]

\* The results block: the table, the download payload and the raw text panel.
Display(ss) ==
    IF Has(ss, "extracted_df") /\ ~IsEmptyDf(ss["extracted_df"])
    THEN [shown |-> TRUE,
          table |-> ss["extracted_df"],
          download |-> convert_df_to_excel(ss["extracted_df"]),
          raw |-> IF Has(ss, "extractor_instance")
                  THEN IF ss["extractor_instance"].text_content # <<>>
                       THEN [widget |-> "text_area",
                             text |-> ss["extractor_instance"].text_content]
                       ELSE [widget |-> "info: raw text was empty", text |-> <<>>]
                  ELSE [widget |-> "info: upload a document", text |-> <<>>]]
    ELSE NothingShown

Page(msgs, shown) ==
    [msgs |-> msgs, shown |-> shown.shown, table |-> shown.table,
     download |-> shown.download, raw |-> shown.raw]

\* One pass of the script for session s from the execution block on, given
\* the session state ss the sidebar handlers left and what the execution
\* block answered (rb).
EndPass(s, msgs, rb) ==
    /\ session_state' = [session_state EXCEPT ![s] = rb.ss]
    /\ cache_data' = rb.cache
    /\ rendered' = [rendered EXCEPT ![s] = Page(msgs \cup rb.msgs, Display(rb.ss))]
    /\ last_run' = [last_run EXCEPT ![s] = rb.run]
    /\ cache_origin' =
          IF rb.run.ran /\ rb.run.called /\ ~rb.run.hit
          THEN (CacheKey(rb.run.text) :> [session |-> s, text |-> rb.run.text])
               @@ cache_origin
          ELSE cache_origin
    /\ cleared' = [cleared EXCEPT ![s] =
                      IF rb.run.ran /\ rb.run.called THEN FALSE ELSE @]

FinishPass(s, ss, file, use_ai, msgs, outcome) ==
    EndPass(s, msgs, RunBlock(ss, file, use_ai, cache_data, outcome))

\* The user picks or removes a file: the script reruns, no button pressed.
UploadFrom(s, files) ==
    \E f \in files :
        /\ f # pdf_uploader[s]
        /\ pdf_uploader' = [pdf_uploader EXCEPT ![s] = f]
        /\ FinishPass(s, session_state[s], f, use_ai_checkbox[s], KeyBanner, "records")
        /\ UNCHANGED <<GEMINI_API_KEY, use_ai_checkbox, cli, dex>>

\* The user flips the checkbox: the script reruns, no button pressed.
ToggleAI(s) ==
    /\ use_ai_checkbox' = [use_ai_checkbox EXCEPT ![s] = ~@]
    /\ FinishPass(s, session_state[s], pdf_uploader[s], ~use_ai_checkbox[s],
                  KeyBanner, "records")
    /\ UNCHANGED <<GEMINI_API_KEY, pdf_uploader, cli, dex>>

Upload(s) == UploadFrom(s, UploadedFiles \cup {NoFile})

\* The user presses "Extract Data"; the Gemini step, if the pass reaches it
\* and the cache does not answer, goes one of the given ways.
AfterExtractButton(s, b, outcome) ==
    IF b.stop
    THEN /\ rendered' = [rendered EXCEPT ![s] =
                            Page(KeyBanner \cup b.msgs, NothingShown)]
         /\ last_run' = [last_run EXCEPT ![s] = NoRun]
         /\ UNCHANGED <<session_state, cache_data, cache_origin, cleared>>
    ELSE FinishPass(s, b.ss, pdf_uploader[s], use_ai_checkbox[s],
                    KeyBanner \cup b.msgs, outcome)

ExtractWith(s, outcomes) ==
    \E outcome \in outcomes :
        /\ AfterExtractButton(s, ExtractButton(session_state[s], pdf_uploader[s],
                                               use_ai_checkbox[s]), outcome)
        /\ UNCHANGED <<GEMINI_API_KEY, pdf_uploader, use_ai_checkbox, cli, dex>>

ClickExtract(s) == ExtractWith(s, OutcomesWith(GEMINI_API_KEY))

\* The user presses "Clear Results": the handler, then the pass st.rerun() starts.
ClickClear(s) ==
    LET ss == ClearButton(session_state[s]) IN
    /\ session_state' = [session_state EXCEPT ![s] = ss]
    /\ cache_data' = ClearedCache(cache_data)
    /\ cache_origin' = <<>>
    /\ rendered' = [rendered EXCEPT ![s] = Page(KeyBanner, Display(ss))]
    /\ last_run' = [last_run EXCEPT ![s] = NoRun]
    /\ cleared' = [cleared EXCEPT ![s] = TRUE]
    /\ UNCHANGED <<GEMINI_API_KEY, pdf_uploader, use_ai_checkbox, cli, dex>>

\* The user presses the download button: the script reruns, nothing pressed
\* that the script reads.
ClickDownload(s) ==
    /\ rendered[s].shown
    /\ FinishPass(s, session_state[s], pdf_uploader[s], use_ai_checkbox[s],
                  KeyBanner, "records")
    /\ UNCHANGED <<GEMINI_API_KEY, pdf_uploader, use_ai_checkbox, cli, dex>>

\* The server before any user has done anything.
AppStart ==
    /\ pdf_uploader = [s \in Sessions |-> NoFile]
    /\ use_ai_checkbox = [s \in Sessions |-> TRUE]
    /\ session_state = [s \in Sessions |-> <<>>]
    /\ cache_data = <<>>
    /\ rendered = [s \in Sessions |-> Page(KeyBanner, NothingShown)]
    /\ last_run = [s \in Sessions |-> NoRun]
    /\ cache_origin = <<>>
    /\ cleared = [s \in Sessions |-> FALSE]

\* The command-line program not started.
CliOff ==
    [pc |-> "off", pdf |-> NoFile, use_ai |-> FALSE, text_content |-> <<>>,
     data |-> <<>>, df |-> EmptyDataFrame, stdout |-> {},
     output |-> NoPayload, client |-> FALSE, remote |-> FALSE, exc |-> None,
     outcome |-> "none"]

\* document_extractor.py not started.
PatOff ==
    [pc |-> "off", pdf |-> NoFile, text_content |-> <<>>, structured_data |-> <<>>,
     personal_data |-> <<>>, professional_data |-> <<>>, education_data |-> <<>>,
     cert_data |-> <<>>, tech_data |-> <<>>, df |-> EmptyDataFrame,
     stdout |-> {}, output |-> NoPayload, exc |-> None,
     second |-> FALSE,
     first |-> [text_content |-> <<>>, structured_data |-> <<>>,
                all_data |-> <<>>, df |-> EmptyDataFrame]]

InitApp ==
    /\ GEMINI_API_KEY \in BOOLEAN
    /\ AppStart
    /\ cli = CliOff
    /\ dex = PatOff

\* One user alone on the server, with every file and every Gemini outcome.
NextApp ==
    \E s \in {1} :
        \/ Upload(s)
        \/ ToggleAI(s)
        \/ ClickExtract(s)
        \/ ClickClear(s)
        \/ ClickDownload(s)

SpecApp == InitApp /\ [][NextApp]_vars

\* Two users on the same server, each with the two readable documents,
\* the remote model answering.
UploadDocument(s) == UploadFrom(s, {PdfA, PdfB})

ExtractAnswered(s) ==
    ExtractWith(s, IF GEMINI_API_KEY THEN {"records", "api_error"} ELSE {"client_error"})

NextShared ==
    \E s \in Sessions :
        \/ UploadDocument(s)
        \/ ExtractAnswered(s)
        \/ ToggleAI(s)
        \/ ClickClear(s)

SpecShared == InitApp /\ [][NextShared]_vars

\* ------------------------------------------------------------------ ai_extractor.py
\* AIDocumentExtractor.extract_with_gemini of ai_extractor.py: the returned
\* list, what is printed, whether genai.Client() was built and whether
\* generate_content was called.
ExtractWithGeminiCli(text, outcome) ==
    CASE outcome = "client_error" ->
            [ret |-> <<>>, msgs |-> {"Error initializing Gemini client"},
             client |-> FALSE, remote |-> FALSE]
      [] outcome = "api_error" ->
            [ret |-> <<>>, msgs |-> {"Error with Gemini API"},
             client |-> TRUE, remote |-> TRUE]
      [] outcome = "json_error" ->
            [ret |-> <<>>, msgs |-> {"Error decoding JSON response from Gemini"},
             client |-> TRUE, remote |-> TRUE]
      [] outcome = "other_error" ->
            [ret |-> <<>>, msgs |-> {"An unexpected error occurred during the API call"},
             client |-> TRUE, remote |-> TRUE]
      [] outcome = "records" ->
            [ret |-> AnswerFor(text), msgs |-> {}, client |-> TRUE, remote |-> TRUE]
      [] outcome = "empty_array" ->
            [ret |-> <<>>, msgs |-> {}, client |-> TRUE, remote |-> TRUE]
      [] outcome = "malformed" ->
            [ret |-> MalformedAnswer, msgs |-> {}, client |-> TRUE, remote |-> TRUE]

\* AIDocumentExtractor.rule_based_extraction
rule_based_extraction == <<>>

\* The extraction step of process_document of ai_extractor.py:
\*     if self.use_ai: extracted_data = self.extract_with_gemini()
\*     else:           extracted_data = self.rule_based_extraction()
ExtractionStepCli(use_ai, text, outcome) ==
    IF use_ai
    THEN ExtractWithGeminiCli(text, outcome)
    ELSE [ret |-> rule_based_extraction, msgs |-> {}, client |-> FALSE,
          remote |-> FALSE]

\* __main__: the arguments are read; a path that does not exist ends the run.
CliMain ==
    /\ cli.pc = "main"
    /\ cli' = IF ~cli.pdf.exists
              THEN [cli EXCEPT !.pc = "exit",
                               !.stdout = @ \cup {"Error: The specified PDF file was not found"}]
              ELSE [cli EXCEPT !.pc = "read",
                               !.stdout = @ \cup {"Extracting data from document..."}]
    /\ UNCHANGED <<GEMINI_API_KEY, appVars, dex>>

\* save_to_excel -> process_document -> extract_text_from_pdf
CliRead ==
    /\ cli.pc = "read"
    /\ LET rd == ReadPdfNewline(cli.pdf, cli.text_content) IN
       cli' = [cli EXCEPT !.pc = "extract", !.text_content = rd.text_content,
                          !.stdout = @ \cup rd.msgs]
    /\ UNCHANGED <<GEMINI_API_KEY, appVars, dex>>

\* process_document: the extraction step
CliExtract ==
    /\ cli.pc = "extract"
    /\ \E outcome \in OutcomesWith(GEMINI_API_KEY) :
         LET ex == ExtractionStepCli(cli.use_ai, cli.text_content, outcome) IN
         cli' = [cli EXCEPT !.pc = "table", !.data = ex.ret,
                            !.stdout = @ \cup ex.msgs,
                            !.client = ex.client, !.remote = ex.remote,
                            !.outcome = IF cli.use_ai THEN outcome ELSE "none"]
    /\ UNCHANGED <<GEMINI_API_KEY, appVars, dex>>

\* process_document: the table; an exception leaves the program through
\* save_to_excel and __main__, neither of which catches it.
CliTable ==
    /\ cli.pc = "table"
    /\ LET tb == BuildTableAI(cli.data) IN
       cli' = IF tb.exc # None
              THEN [cli EXCEPT !.pc = "crashed", !.exc = tb.exc]
              ELSE [cli EXCEPT !.pc = "save", !.df = tb.df]
    /\ UNCHANGED <<GEMINI_API_KEY, appVars, dex>>

\* save_to_excel after process_document
CliSave ==
    /\ cli.pc = "save"
    /\ cli' = IF IsEmptyDf(cli.df)
              THEN [cli EXCEPT !.pc = "preview",
                               !.stdout = @ \cup {"No data extracted. Skipping Excel save."}]
              ELSE [cli EXCEPT !.pc = "preview",
                               !.output = convert_df_to_excel(cli.df),
                               !.stdout = @ \cup {"Data successfully extracted and saved"}]
    /\ UNCHANGED <<GEMINI_API_KEY, appVars, dex>>

\* __main__ after save_to_excel: the preview of the first rows
CliPreview ==
    /\ cli.pc = "preview"
    /\ cli' = [cli EXCEPT !.pc = "exit", !.stdout = @ \cup {"EXTRACTION COMPLETE"}]
    /\ UNCHANGED <<GEMINI_API_KEY, appVars, dex>>

\* The files a path given on the command line can name.
CliFiles == {NoFile, CorruptPdf, NoPagesPdf, BlankPdf, PdfA, PdfB}

InitCli ==
    /\ GEMINI_API_KEY \in BOOLEAN
    /\ AppStart
    /\ \E f \in CliFiles, ai \in BOOLEAN :
          cli = [CliOff EXCEPT !.pc = "main", !.pdf = f, !.use_ai = ai,
                               !.stdout = {"Initializing AI Document Extractor..."}]
    /\ dex = PatOff

NextCli ==
    \/ CliMain
    \/ CliRead
    \/ CliExtract
    \/ CliTable
    \/ CliSave
    \/ CliPreview

SpecCli == InitCli /\ [][NextCli]_vars

\* The form with one user and the command-line program on the same machine,
\* hence under the same environment, in any interleaving.
NextBoth == NextApp \/ NextCli

SpecBoth == InitCli /\ [][NextBoth]_vars

\* ------------------------------------------------------------------ characters
LowerCase == <<"a", "b", "c", "d", "e", "f", "g", "h", "i", "j", "k", "l", "m",
               "n", "o", "p", "q", "r", "s", "t", "u", "v", "w", "x", "y", "z">>

UpperCase == <<"A", "B", "C", "D", "E", "F", "G", "H", "I", "J", "K", "L", "M",
               "N", "O", "P", "Q", "R", "S", "T", "U", "V", "W", "X", "Y", "Z">>

DigitChars == <<"0", "1", "2", "3", "4", "5", "6", "7", "8", "9">>

Range(f) == {f[i] : i \in DOMAIN f}

\* [A-Z]
UpperSet == Range(UpperCase)

\* \d
DigitSet == Range(DigitChars)

\* \w
WordSet == Range(LowerCase) \cup UpperSet \cup DigitSet \cup {"_"}

\* \s
SpaceSet == {" ", "\t", "\n", "\r", "\f"}

\* str.lower() and str.upper() of one character
Lower(c) ==
    IF c \in UpperSet THEN LowerCase[CHOOSE i \in 1..26 : UpperCase[i] = c] ELSE c

Upper(c) ==
    IF c \in Range(LowerCase) THEN UpperCase[CHOOSE i \in 1..26 : LowerCase[i] = c] ELSE c

LowerAll(cs) == [i \in 1..Len(cs) |-> Lower(cs[i])]

\* str.capitalize(): the first character upper case, the rest lower case.
Capitalize(cs) == [i \in 1..Len(cs) |-> IF i = 1 THEN Upper(cs[i]) ELSE Lower(cs[i])]

RECURSIVE ToInt(_)
\* int(digits)
ToInt(ds) ==
    IF ds = <<>> THEN 0
    ELSE 10 * ToInt(SubSeq(ds, 1, Len(ds) - 1))
         + ((CHOOSE i \in 1..10 : DigitChars[i] = ds[Len(ds)]) - 1)

\* '%02d' % n, for 0 <= n <= 99
TwoDigits(n) == DigitChars[(n \div 10) + 1] \o DigitChars[(n % 10) + 1]

\* Whether the string s stands in text at position i.
LitAt(text, s, i) ==
    /\ i + Len(s) - 1 <= Len(text)
    /\ Str(SubSeq(text, i, i + Len(s) - 1)) = s

RECURSIVE StripLeft(_)
StripLeft(cs) ==
    IF cs # <<>> /\ Head(cs) \in SpaceSet THEN StripLeft(Tail(cs)) ELSE cs

RECURSIVE StripRight(_)
StripRight(cs) ==
    IF cs # <<>> /\ cs[Len(cs)] \in SpaceSet
    THEN StripRight(SubSeq(cs, 1, Len(cs) - 1)) ELSE cs

\* str.strip()
Strip(cs) == StripRight(StripLeft(cs))

\* str.split(): the maximal runs of non-space characters.
RECURSIVE Split(_)
Split(cs) ==
    LET body == StripLeft(cs)
        n == IF \E i \in 1..Len(body) : body[i] \in SpaceSet
             THEN (CHOOSE i \in 1..Len(body) :
                      /\ body[i] \in SpaceSet
                      /\ \A k \in 1..(i - 1) : body[k] \notin SpaceSet) - 1
             ELSE Len(body)
    IN  IF body = <<>> THEN <<>>
        ELSE <<SubSeq(body, 1, n)>> \o Split(SubSeq(body, n + 1, Len(body)))

\* str.replace(old, new), old and new given as strings, the result as a string.
RECURSIVE Replace(_, _, _)
Replace(cs, old, new) ==
    LET at == {i \in 1..Len(cs) : LitAt(cs, old, i)} IN
    IF Len(old) = 0 \/ at = {} THEN Str(cs)
    ELSE LET i == CHOOSE i \in at : \A k \in at : i <= k IN
         Str(SubSeq(cs, 1, i - 1)) \o new
         \o Replace(SubSeq(cs, i + Len(old), Len(cs)), old, new)

\* ------------------------------------------------------------------ re
\* A pattern is a sequence of elements: a literal string, a character
\* class repeated one or more times (greedy), a class repeated exactly n
\* times, an optional literal (greedy), the start and the end of a group,
\* the end of the text.
Lit(str) == [t |-> "lit", s |-> str, cls |-> {}, neg |-> FALSE, n |-> 0]

Plus(c) == [t |-> "plus", s |-> "", cls |-> c, neg |-> FALSE, n |-> 0]

PlusNot(c) == [t |-> "plus", s |-> "", cls |-> c, neg |-> TRUE, n |-> 0]

Rep(c, k) == [t |-> "rep", s |-> "", cls |-> c, neg |-> FALSE, n |-> k]

Opt(str) == [t |-> "opt", s |-> str, cls |-> {}, neg |-> FALSE, n |-> 0]

Open == [t |-> "open", s |-> "", cls |-> {}, neg |-> FALSE, n |-> 0]

Close == [t |-> "close", s |-> "", cls |-> {}, neg |-> FALSE, n |-> 0]

End == [t |-> "end", s |-> "", cls |-> {}, neg |-> FALSE, n |-> 0]

InClass(e, ch) == (ch \in e.cls) # e.neg

\* How many characters of e's class stand in a row from position i.
RunLen(text, e, i) ==
    LET stop == {k \in i..Len(text) : ~InClass(e, text[k])} IN
    IF stop = {} THEN Len(text) + 1 - i
    ELSE (CHOOSE k \in stop : \A x \in stop : k <= x) - i

NoMatch == [ok |-> FALSE, start |-> 0, end |-> 0, groups |-> <<>>]

RECURSIVE MatchFrom(_, _, _, _, _)
\* The match of pat[j..] at position i that a backtracking matcher finds
\* first, with the groups opened so far; end is one past the last character.
MatchFrom(text, pat, j, i, groups) ==
    IF j > Len(pat)
    THEN [ok |-> TRUE, start |-> 0, end |-> i, groups |-> groups]
    ELSE LET e == pat[j] IN
         CASE e.t = "lit" ->
                IF LitAt(text, e.s, i)
                THEN MatchFrom(text, pat, j + 1, i + Len(e.s), groups)
                ELSE NoMatch
           [] e.t = "plus" ->
                \* greedy: the longest run after which the rest matches
                LET fit == {k \in 1..RunLen(text, e, i) :
                               MatchFrom(text, pat, j + 1, i + k, groups).ok}
                IN  IF fit = {} THEN NoMatch
                    ELSE MatchFrom(text, pat, j + 1,
                                   i + (CHOOSE k \in fit : \A x \in fit : x <= k),
                                   groups)
           [] e.t = "rep" ->
                IF /\ i + e.n - 1 <= Len(text)
                   /\ \A k \in i..(i + e.n - 1) : InClass(e, text[k])
                THEN MatchFrom(text, pat, j + 1, i + e.n, groups)
                ELSE NoMatch
           [] e.t = "opt" ->
                LET with == IF LitAt(text, e.s, i)
                            THEN MatchFrom(text, pat, j + 1, i + Len(e.s), groups)
                            ELSE NoMatch
                IN  IF with.ok THEN with ELSE MatchFrom(text, pat, j + 1, i, groups)
           [] e.t = "open" ->
                MatchFrom(text, pat, j + 1, i, Append(groups, [from |-> i, to |-> i]))
           [] e.t = "close" ->
                MatchFrom(text, pat, j + 1, i,
                          [groups EXCEPT ![Len(groups)].to = i])
           [] e.t = "end" ->
                IF i = Len(text) + 1
                THEN MatchFrom(text, pat, j + 1, i, groups)
                ELSE NoMatch

\* re.search(pat, text): the leftmost match, or None (ok = FALSE)
Search(text, pat) ==
    LET at == {i \in 1..(Len(text) + 1) : MatchFrom(text, pat, 1, i, <<>>).ok} IN
    IF at = {} THEN NoMatch
    ELSE LET i == CHOOSE i \in at : \A k \in at : i <= k IN
         [MatchFrom(text, pat, 1, i, <<>>) EXCEPT !.start = i]

\* match.group(g), g >= 1, and match.group(0)
Group(text, m, g) == SubSeq(text, m.groups[g].from, m.groups[g].to - 1)

Group0(text, m) == SubSeq(text, m.start, m.end - 1)

\* ------------------------------------------------------------------ datetime
MonthNames ==
    <<"january", "february", "march", "april", "may", "june", "july",
      "august", "september", "october", "november", "december">>

MonthAbbr ==
    <<"Jan", "Feb", "Mar", "Apr", "May", "Jun", "Jul", "Aug", "Sep", "Oct",
      "Nov", "Dec">>

IsLeap(y) == (y % 4 = 0 /\ y % 100 # 0) \/ y % 400 = 0

DaysIn(m, y) ==
    IF m = 2 THEN (IF IsLeap(y) THEN 29 ELSE 28)
    ELSE IF m \in {4, 6, 9, 11} THEN 30 ELSE 31

\* The expression strptime compiles '%B %d, %Y' to (letter case ignored):
\* a month name, white space, a day of one or two digits, a comma, white
\* space, a year of four digits, and nothing after it.
DatePattern ==
    <<Open, Plus(WordSet), Close, Plus(SpaceSet), Open, Plus(DigitSet), Close,
      Lit(","), Plus(SpaceSet), Open, Rep(DigitSet, 4), Close, End>>

NoDate == [ok |-> FALSE, day |-> 0, month |-> 0, year |-> 0]

\* datetime.strptime(cs, '%B %d, %Y'): the date, or ok = FALSE for ValueError
\* (no month of that name, a day that is not 1..31 in one or two digits,
\* year 0, or a day the month does not have).
CheckedDate(name, dd, day, year) ==
    IF /\ \E k \in 1..12 : MonthNames[k] = name
       /\ Len(dd) <= 2 /\ day >= 1 /\ day <= 31
       /\ year >= 1
       /\ day <= DaysIn(CHOOSE k \in 1..12 : MonthNames[k] = name, year)
    THEN [ok |-> TRUE, day |-> day,
          month |-> CHOOSE k \in 1..12 : MonthNames[k] = name, year |-> year]
    ELSE NoDate

\* The fields of the match m of DatePattern on cs, checked.
ParsedDate(cs, m) ==
    IF ~m.ok THEN NoDate
    ELSE CheckedDate(Str(LowerAll(Group(cs, m, 1))), Group(cs, m, 2),
                     ToInt(Group(cs, m, 2)), ToInt(Group(cs, m, 3)))

Strptime(cs) == ParsedDate(cs, MatchFrom(cs, DatePattern, 1, 1, <<>>))

\* date.strftime('%d-%b-%y')
Strftime(d) ==
    TwoDigits(d.day) \o "-" \o MonthAbbr[d.month] \o "-" \o TwoDigits(d.year % 100)

\* ------------------------------------------------------------------ document_extractor.py
Rec(k, v, c) == [key |-> k, value |-> v, comments |-> c]

\* A rule that parses a date: its records, or the ValueError strptime raised.
DateAnswer(k, d) ==
    IF d.ok THEN [exc |-> None, data |-> <<Rec(k, Strftime(d), "")>>]
    ELSE [exc |-> "ValueError", data |-> <<>>]

\* datetime.strptime(cs, '%B %d, %Y').strftime('%d-%b-%y') under key k
DateRecord(k, cs) == DateAnswer(k, Strptime(cs))

NoRecords == [exc |-> None, data |-> <<>>]

\* ---- extract_personal_info
\* (\w+\s+\w+)\s+was born
name_pattern ==
    <<Open, Plus(WordSet), Plus(SpaceSet), Plus(WordSet), Close, Plus(SpaceSet),
      Lit("was born")>>

NameRule(text) ==
    LET m == Search(text, name_pattern) IN
    IF ~m.ok THEN <<>>
    ELSE LET names == Split(Group(text, m, 1)) IN
         <<Rec("First Name", Str(names[1]), ""),
           Rec("Last Name", IF Len(names) > 1 THEN Str(names[2]) ELSE "", "")>>

\* born on (\w+ \d+, \d{4})
dob_pattern ==
    <<Lit("born on "), Open, Plus(WordSet), Lit(" "), Plus(DigitSet), Lit(", "),
      Rep(DigitSet, 4), Close>>

DobRule(text) ==
    LET m == Search(text, dob_pattern) IN
    IF ~m.ok THEN NoRecords ELSE DateRecord("Date of Birth", Group(text, m, 1))

\* born on [^,]+, in (\w+), (\w+)
birth_pattern ==
    <<Lit("born on "), PlusNot({","}), Lit(", in "), Open, Plus(WordSet), Close,
      Lit(", "), Open, Plus(WordSet), Close>>

birth_context ==
    <<Lit("Born and raised in the Pink City of India, his birthplace provides valuable regional profiling context")>>

BirthRule(text) ==
    LET m == Search(text, birth_pattern)
        c == Search(text, birth_context)
        city_comment == IF c.ok THEN Str(Group0(text, c)) ELSE ""
    IN  IF ~m.ok THEN <<>>
        ELSE <<Rec("Birth City", Str(Group(text, m, 1)), city_comment),
               Rec("Birth State", Str(Group(text, m, 2)), city_comment)>>

\* making him (\d+) years old as of (\d{4})
age_pattern ==
    <<Lit("making him "), Open, Plus(DigitSet), Close, Lit(" years old as of "),
      Open, Rep(DigitSet, 4), Close>>

\* His birthdate is formatted as[^,]+, while his age serves as ...
age_context_pattern ==
    <<Lit("His birthdate is formatted as"), PlusNot({","}),
      Lit(", while his age serves as a key demographic marker for analytical purposes")>>

AgeRule(text) ==
    LET m == Search(text, age_pattern)
        c == Search(text, age_context_pattern)
    IN  IF ~m.ok THEN <<>>
        ELSE <<Rec("Age", Str(Group(text, m, 1)) \o " years",
                   IF c.ok THEN Str(Group0(text, c)) ELSE "")>>

\* his ([A-Z]\+?) blood group
blood_pattern ==
    <<Lit("his "), Open, Rep(UpperSet, 1), Opt("+"), Close, Lit(" blood group")>>

\* his [A-Z]\+? blood group is noted for emergency contact purposes
blood_context_pattern ==
    <<Lit("his "), Rep(UpperSet, 1), Opt("+"),
      Lit(" blood group is noted for emergency contact purposes")>>

\* blood_context.group(0).replace('his O+ blood group is noted for ', '').capitalize()
BloodComment(g0) ==
    LET old == "his O+ blood group is noted for " IN
    IF LitAt(g0, old, 1)
    THEN Str(Capitalize(SubSeq(g0, Len(old) + 1, Len(g0))))
    ELSE Str(Capitalize(g0))

BloodRule(text) ==
    LET m == Search(text, blood_pattern)
        c == Search(text, blood_context_pattern)
    IN  IF ~m.ok THEN <<>>
        ELSE <<Rec("Blood Group", Str(Group(text, m, 1)),
                   IF c.ok THEN BloodComment(Group0(text, c)) ELSE "")>>

\* As an (\w+) national
nationality_pattern ==
    <<Lit("As an "), Open, Plus(WordSet), Close, Lit(" national")>>

nat_context_text ==
    "his citizenship status is important for understanding his work authorization and visa requirements across different employment opportunities"

NationalityRule(text) ==
    LET m == Search(text, nationality_pattern)
        c == Search(text, <<Lit(nat_context_text)>>)
    IN  IF ~m.ok THEN <<>>
        ELSE <<Rec("Nationality", Str(Group(text, m, 1)),
                   IF c.ok
                   THEN Replace(Group0(text, c), nat_context_text,
                                "Citizenship status is important for understanding his work authorization and visa requirements across different employment opportunities.")
                   ELSE "")>>

\* DocumentExtractor.extract_personal_info: the list returned, or the
\* exception that leaves the method.
PersonalRecords(text, dob) ==
    IF dob.exc # None THEN [exc |-> dob.exc, data |-> <<>>]
    ELSE [exc |-> None,
          data |-> NameRule(text) \o dob.data \o BirthRule(text) \o AgeRule(text)
                   \o BloodRule(text) \o NationalityRule(text)]

extract_personal_info(text) == PersonalRecords(text, DobRule(text))

\* ---- extract_professional_info
DateGroup == <<Open, Plus(WordSet), Lit(" "), Plus(DigitSet), Lit(", "), Rep(DigitSet, 4), Close>>

\* professional journey began on (\w+ \d+, \d{4}), when he joined his first
\* company as a ([^w]+) with an annual salary of ([\d,]+) INR
first_job_pattern ==
    <<Lit("professional journey began on ")>> \o DateGroup
    \o <<Lit(", when he joined his first company as a "), Open, PlusNot({"w"}), Close,
         Lit(" with an annual salary of "), Open, Plus(DigitSet \cup {","}), Close,
         Lit(" INR")>>

\* The records of the first job once its date d is parsed.
FirstJobRecords(text, m, d) ==
    IF d.exc # None THEN d
    ELSE [exc |-> None,
          data |-> d.data \o
            <<Rec("Designation of first professional role",
                  Str(Strip(Group(text, m, 2))), ""),
              Rec("Salary of first professional role",
                  Replace(Group(text, m, 3), ",", ""), ""),
              Rec("Salary currency of first professional role", "INR", "")>>]

FirstJobMatch(text, m) ==
    IF ~m.ok THEN NoRecords
    ELSE FirstJobRecords(text, m,
                         DateRecord("Joining Date of first professional role",
                                    Group(text, m, 1)))

FirstJobRule(text) == FirstJobMatch(text, Search(text, first_job_pattern))

\* his current role at ([^b]+) beginning
current_org_pattern ==
    <<Lit("his current role at "), Open, PlusNot({"b"}), Close, Lit(" beginning")>>

CurrentOrgRule(text) ==
    LET m == Search(text, current_org_pattern) IN
    IF ~m.ok THEN <<>>
    ELSE <<Rec("Current Organization", Str(Strip(Group(text, m, 1))), "")>>

\* beginning on (\w+ \d+, \d{4})
current_join_pattern == <<Lit("beginning on ")>> \o DateGroup

CurrentJoinRule(text) ==
    LET m == Search(text, current_join_pattern) IN
    IF ~m.ok THEN NoRecords
    ELSE DateRecord("Current Joining Date", Group(text, m, 1))

\* where he serves as a ([^e]+) earning
current_desig_pattern ==
    <<Lit("where he serves as a "), Open, PlusNot({"e"}), Close, Lit(" earning")>>

CurrentDesigRule(text) ==
    LET m == Search(text, current_desig_pattern) IN
    IF ~m.ok THEN <<>>
    ELSE <<Rec("Current Designation", Str(Strip(Group(text, m, 1))), "")>>

\* earning ([\d,]+) INR annually
current_sal_pattern ==
    <<Lit("earning "), Open, Plus(DigitSet \cup {","}), Close, Lit(" INR annually")>>

\* This salary progression ... eight- ?fold increase over his twelve-year career span
salary_context_pattern ==
    <<Lit("This salary progression from his starting compensation to his current peak salary of 2,800,000 INR represents a substantial eight-"),
      Opt(" "), Lit("fold increase over his twelve-year career span")>>

CurrentSalaryRule(text) ==
    LET m == Search(text, current_sal_pattern)
        c == Search(text, salary_context_pattern)
    IN  IF ~m.ok THEN <<>>
        ELSE <<Rec("Current Salary", Replace(Group(text, m, 1), ",", ""),
                   IF c.ok THEN Str(Group0(text, c)) ELSE ""),
               Rec("Current Salary Currency", "INR", "")>>

\* he worked at ([^f]+) from
prev_org_pattern ==
    <<Lit("he worked at "), Open, PlusNot({"f"}), Close, Lit(" from")>>

PrevOrgRule(text) ==
    LET m == Search(text, prev_org_pattern) IN
    IF ~m.ok THEN <<>>
    ELSE <<Rec("Previous Organization", Str(Strip(Group(text, m, 1))), "")>>

\* from (\w+ \d+, \d{4}), to
prev_join_pattern == <<Lit("from ")>> \o DateGroup \o <<Lit(", to")>>

PrevJoinRule(text) ==
    LET m == Search(text, prev_join_pattern) IN
    IF ~m.ok THEN NoRecords
    ELSE DateRecord("Previous Joining Date", Group(text, m, 1))

\* from [^,]+, to (\d{4})
prev_end_pattern ==
    <<Lit("from "), PlusNot({","}), Lit(", to "), Open, Rep(DigitSet, 4), Close>>

PrevEndRule(text) ==
    LET m == Search(text, prev_end_pattern) IN
    IF ~m.ok THEN <<>>
    ELSE <<Rec("Previous end year", Str(Group(text, m, 1)), "")>>

\* starting as a ([^a]+) and earning a promotion
prev_desig_pattern ==
    <<Lit("starting as a "), Open, PlusNot({"a"}), Close,
      Lit(" and earning a promotion")>>

PrevDesigRule(text) ==
    LET m == Search(text, prev_desig_pattern) IN
    IF ~m.ok THEN <<>>
    ELSE <<Rec("Previous Starting Designation", Str(Strip(Group(text, m, 1))),
               "Promoted in 2019")>>

\* DocumentExtractor.extract_professional_info: the list returned, or the
\* exception that leaves the method.
ProfessionalRecords(text, first, join, prev) ==
    IF first.exc # None THEN [exc |-> first.exc, data |-> <<>>]
    ELSE IF join.exc # None THEN [exc |-> join.exc, data |-> <<>>]
    ELSE IF prev.exc # None THEN [exc |-> prev.exc, data |-> <<>>]
    ELSE [exc |-> None,
          data |-> first.data \o CurrentOrgRule(text) \o join.data
                   \o CurrentDesigRule(text) \o CurrentSalaryRule(text)
                   \o PrevOrgRule(text) \o prev.data \o PrevEndRule(text)
                   \o PrevDesigRule(text)]

extract_professional_info(text) ==
    ProfessionalRecords(text, FirstJobRule(text), CurrentJoinRule(text),
                        PrevJoinRule(text))

\* ---- extract_education_info
\* A rule with one group: the record for its stripped capture, with a
\* suffix after the value and fixed comments.
OneGroupRule(text, pat, k, suffix, c) ==
    LET m == Search(text, pat) IN
    IF ~m.ok THEN <<>>
    ELSE <<Rec(k, Str(Strip(Group(text, m, 1))) \o suffix, c)>>

\* DocumentExtractor.extract_education_info.  The captures of the year,
\* score and CGPA rules are used as matched (they hold no white space, so
\* stripping them changes nothing).
extract_education_info(text) ==
    \* high school education at ([^,]+), Jaipur
    OneGroupRule(text,
         <<Lit("high school education at "), Open, PlusNot({","}), Close,
         Lit(", Jaipur")>>,
         "High School", "",
         "His core subjects included Mathematics, Physics, Chemistry, and Computer Science, demonstrating his early aptitude for technical disciplines.")
    \* 12th standard in (\d{4})
    \o OneGroupRule(text,
         <<Lit("12th standard in "), Open, Rep(DigitSet, 4), Close>>,
         "12th standard pass out year", "",
         "Outstanding achievement")
    \* achieving an outstanding ([\d.]+)% overall score
    \o OneGroupRule(text,
         <<Lit("achieving an outstanding "), Open, Plus(DigitSet \cup {"."}),
         Close, Lit("% overall score")>>,
         "12th overall board score", "%",
         "")
    \* He pursued his (B\.Tech[^a]+) at
    \o OneGroupRule(text,
         <<Lit("He pursued his "), Open, Lit("B.Tech"), PlusNot({"a"}), Close,
         Lit(" at")>>,
         "Undergraduate degree", "",
         "")
    \* at the prestigious ([^,]+), graduating
    \o OneGroupRule(text,
         <<Lit("at the prestigious "), Open, PlusNot({","}), Close,
         Lit(", graduating")>>,
         "Undergraduate college", "",
         "")
    \* graduating with honors in (\d{4})
    \o OneGroupRule(text,
         <<Lit("graduating with honors in "), Open, Rep(DigitSet, 4), Close>>,
         "Undergraduate year", "",
         "Graduating with honors and ranking 15th among 120 students in his class.")
    \* with a CGPA of ([\d.]+) on a 10-point scale
    \o OneGroupRule(text,
         <<Lit("with a CGPA of "), Open, Plus(DigitSet \cup {"."}), Close,
         Lit(" on a 10-point scale")>>,
         "Undergraduate CGPA", "",
         "On a 10-point scale")
    \* earned his (M\.Tech[^i]+) in
    \o OneGroupRule(text,
         <<Lit("earned his "), Open, Lit("M.Tech"), PlusNot({"i"}), Close,
         Lit(" in")>>,
         "Graduation degree", "",
         "")
    \* His academic excellence continued at ([^,]+), where he earned
    \o OneGroupRule(text,
         <<Lit("His academic excellence continued at "), Open, PlusNot({","}),
         Close, Lit(", where he earned")>>,
         "Graduation college", "",
         "Continued academic excellence at IIT Bombay")
    \* Data Science in (\d{4})
    \o OneGroupRule(text,
         <<Lit("Data Science in "), Open, Rep(DigitSet, 4), Close>>,
         "Graduation year", "",
         "")
    \* achieving an exceptional CGPA of ([\d.]+) and scoring (\d+) out of
    \* (\d+)
    \o OneGroupRule(text,
         <<Lit("achieving an exceptional CGPA of "), Open, Plus(DigitSet \cup
         {"."}), Close, Lit(" and scoring "), Open, Plus(DigitSet), Close,
         Lit(" out of "), Open, Plus(DigitSet), Close>>,
         "Graduation CGPA", "",
         "Considered exceptional and scoring 95 out of 100 for his final year thesis project")

\* ---- extract_certifications
cert_context ==
    "Vijay's commitment to continuous learning is evident through his impressive certification scores. He passed the AWS Solutions Architect exam in 2019 with a score of 920 out of 1000. Pursued in the year 2020 with 875 points."

cert_tail ==
    " These certifications complement his practical experience and demonstrate his expertise across multiple technology platforms."

\* his Project Management Professional certification, obtained in (\d{4}),
\* was achieved with an "([^"]+)" rating
pmp_pattern ==
    <<Lit("his Project Management Professional certification, obtained in "),
      Open, Rep(DigitSet, 4), Close, Lit(", was achieved with an \""),
      Open, PlusNot({"\""}), Close, Lit("\" rating")>>

PmpRule(text) ==
    LET m == Search(text, pmp_pattern) IN
    IF ~m.ok THEN <<>>
    ELSE <<Rec("Certifications 3", "Project Management Professional certification",
               "Obtained in " \o Str(Group(text, m, 1)) \o ", was achieved with an \""
               \o Str(Group(text, m, 2)) \o "\" rating from PMI." \o cert_tail)>>

\* his SAFe Agilist certification earned him an outstanding (\d+)% score
safe_pattern ==
    <<Lit("his SAFe Agilist certification earned him an outstanding "),
      Open, Plus(DigitSet), Close, Lit("% score")>>

SafeRule(text) ==
    LET m == Search(text, safe_pattern) IN
    IF ~m.ok THEN <<>>
    ELSE <<Rec("Certifications 4", "SAFe Agilist",
               "Earned him an outstanding " \o Str(Group(text, m, 1)) \o "% score."
               \o cert_tail)>>

extract_certifications(text) ==
    <<Rec("Certifications 1", "AWS Solutions Architect", cert_context),
      Rec("Certifications 2", "Azure Data Engineer", cert_context)>>
    \o PmpRule(text) \o SafeRule(text)

\* ---- extract_technical_proficiency
extract_technical_proficiency(text) ==
    <<Rec("Technical Proficiency", "",
          "In terms of technical proficiency, Vijay rates himself highly across various skills, with SQL expertise at a perfect 10 out of 10, reflecting his daily usage since 2012. His Python proficiency scores 9 out of 10, backed by over seven years of practical experience and demonstrate his expertise across multiple technology platforms.")>>

\* ------------------------------------------------------------------ documents
\* The texts of the PDFs given to document_extractor.py, spelled out
\* character by character.
\* 'Vijay Kumar was born on March 15, 1989, in Jaipur, Rajasthan'
SampleSentence ==
    <<"V", "i", "j", "a", "y", " ", "K", "u", "m", "a", "r", " ", "w", "a",
      "s", " ", "b", "o", "r", "n", " ", "o", "n", " ", "M", "a", "r", "c",
      "h", " ", "1", "5", ",", " ", "1", "9", "8", "9", ",", " ", "i", "n",
      " ", "J", "a", "i", "p", "u", "r", ",", " ", "R", "a", "j", "a", "s",
      "t", "h", "a", "n">>

\* 'Vijay Kumar was born on '
NameClause ==
    <<"V", "i", "j", "a", "y", " ", "K", "u", "m", "a", "r", " ", "w", "a",
      "s", " ", "b", "o", "r", "n", " ", "o", "n", " ">>

\* ', in Jaipur, Rajasthan'
PlaceClause ==
    <<",", " ", "i", "n", " ", "J", "a", "i", "p", "u", "r", ",", " ", "R",
      "a", "j", "a", "s", "t", "h", "a", "n">>

\* 'March 15, 1989'
ValidDate ==
    <<"M", "a", "r", "c", "h", " ", "1", "5", ",", " ", "1", "9", "8", "9">>

\* 'Foo 15, 1989'
UnknownMonth ==
    <<"F", "o", "o", " ", "1", "5", ",", " ", "1", "9", "8", "9">>

\* 'March 45, 1989'
DayOutOfRange ==
    <<"M", "a", "r", "c", "h", " ", "4", "5", ",", " ", "1", "9", "8", "9">>

\* 'February 29, 1989'
NotLeapDay ==
    <<"F", "e", "b", "r", "u", "a", "r", "y", " ", "2", "9", ",", " ", "1",
      "9", "8", "9">>

\* 'February 29, 1988'
LeapDay ==
    <<"F", "e", "b", "r", "u", "a", "r", "y", " ", "2", "9", ",", " ", "1",
      "9", "8", "8">>

\* 'Ravi Singh was born. '
EarlierBirth ==
    <<"R", "a", "v", "i", " ", "S", "i", "n", "g", "h", " ", "w", "a", "s",
      " ", "b", "o", "r", "n", ".", " ">>

\* '. He took his current role at Acme beginning on '
RoleClause ==
    <<".", " ", "H", "e", " ", "t", "o", "o", "k", " ", "h", "i", "s", " ",
      "c", "u", "r", "r", "e", "n", "t", " ", "r", "o", "l", "e", " ", "a",
      "t", " ", "A", "c", "m", "e", " ", "b", "e", "g", "i", "n", "n", "i",
      "n", "g", " ", "o", "n", " ">>

\* 'June 1, 2021'
ValidJoin ==
    <<"J", "u", "n", "e", " ", "1", ",", " ", "2", "0", "2", "1">>

\* 'Juno 1, 2021'
InvalidJoin ==
    <<"J", "u", "n", "o", " ", "1", ",", " ", "2", "0", "2", "1">>

\* 'Asha Rao was born on March 15, in Pune, Goa'
PlaceOnlySentence ==
    <<"A", "s", "h", "a", " ", "R", "a", "o", " ", "w", "a", "s", " ", "b",
      "o", "r", "n", " ", "o", "n", " ", "M", "a", "r", "c", "h", " ", "1",
      "5", ",", " ", "i", "n", " ", "P", "u", "n", "e", ",", " ", "G", "o",
      "a">>

DateTexts == {ValidDate, UnknownMonth, DayOutOfRange, NotLeapDay, LeapDay}

RoleTexts == {<<>>, RoleClause \o ValidJoin, RoleClause \o InvalidJoin}

BirthTexts ==
    {before \o NameClause \o d \o PlaceClause \o after :
        before \in {<<>>, EarlierBirth}, d \in DateTexts, after \in RoleTexts}

OnePage(text) == [exists |-> TRUE, readable |-> TRUE, pages |-> <<text>>]

\* The same sentence spread over two pages.
TwoPagePdf ==
    [exists |-> TRUE, readable |-> TRUE,
     pages |-> <<NameClause, ValidDate \o PlaceClause>>]

\* What "Data Input.pdf" can be when document_extractor.py starts.
PatFiles ==
    {OnePage(t) : t \in BirthTexts \cup {PlaceOnlySentence}}
    \cup {NoFile, CorruptPdf, NoPagesPdf, BlankPdf, TwoPagePdf}

RECURSIVE JoinPages(_)
\* for page in pdf_reader.pages: text += page.extract_text()
JoinPages(pages) ==
    IF pages = <<>> THEN <<>> ELSE Head(pages) \o JoinPages(Tail(pages))

\* DocumentExtractor.extract_text_from_pdf: open() or PyPDF2 raising is
\* caught, reported and answered with "" (text_content keeps its value).
ReadPdfPlain(file, text_content) ==
    IF file.exists /\ file.readable
    THEN [ret |-> JoinPages(file.pages), text_content |-> JoinPages(file.pages),
          msgs |-> {}]
    ELSE [ret |-> <<>>, text_content |-> text_content,
          msgs |-> {"Error reading PDF"}]

\* DocumentExtractor.process_document, from "Create DataFrame" on:
\*     df = pd.DataFrame(all_data)
\*     df.insert(0, '#', range(1, len(df) + 1))
\*     df.columns = ['#', 'Key', 'Value', 'Comments']
\* With no records the frame has the one column '#', and naming four
\* columns raises ValueError.
BuildTablePattern(all_data) ==
    IF all_data = <<>>
    THEN [exc |-> "ValueError", df |-> EmptyDataFrame]
    ELSE [exc |-> None,
          df |-> [columns |-> <<"#", "Key", "Value", "Comments">>,
                  rows |-> [i \in 1..Len(all_data) |->
                              <<i, all_data[i].key, all_data[i].value,
                                all_data[i].comments>>]]]

\* df.to_excel(output_path, index=False)
to_excel(df) == [sheet |-> "Sheet1", header |-> df.columns, rows |-> df.rows]

\* A rule group whose list outlives the call and is appended to.
AfterRulesAccumulating(d, r, field, next) ==
    IF r.exc # None
    THEN [d EXCEPT !.pc = "crashed", !.exc = r.exc]
    ELSE [d EXCEPT !.pc = next, ![field] = @ \o r.data]

\* The run after a rule group answered r: its list kept in the local
\* named field, or its exception leaving process_document, save_to_excel
\* and __main__, none of which catches it.
AfterRules(d, r, field, next) ==
    IF r.exc # None
    THEN [d EXCEPT !.pc = "crashed", !.exc = r.exc]
    ELSE [d EXCEPT !.pc = next, ![field] = r.data]

AfterTable(d, tb) ==
    IF tb.exc # None
    THEN [d EXCEPT !.pc = "crashed", !.exc = tb.exc]
    ELSE [d EXCEPT !.pc = "save", !.df = tb.df]

\* __main__: extractor = DocumentExtractor("Data Input.pdf")
PatMain ==
    /\ dex.pc = "main"
    /\ dex' = [dex EXCEPT !.pc = "read", !.text_content = <<>>,
                          !.structured_data = <<>>]
    /\ UNCHANGED <<GEMINI_API_KEY, appVars, cli>>

\* save_to_excel -> process_document -> extract_text_from_pdf
PatRead ==
    /\ dex.pc = "read"
    /\ LET rd == ReadPdfPlain(dex.pdf, dex.text_content) IN
       dex' = [dex EXCEPT !.pc = "personal", !.text_content = rd.text_content,
                          !.stdout = @ \cup rd.msgs]
    /\ UNCHANGED <<GEMINI_API_KEY, appVars, cli>>

\* personal_data = self.extract_personal_info()
PatPersonal ==
    /\ dex.pc = "personal"
    /\ dex' = AfterRules(dex, extract_personal_info(dex.text_content),
                         "personal_data", "professional")
    /\ UNCHANGED <<GEMINI_API_KEY, appVars, cli>>

\* professional_data = self.extract_professional_info()
PatProfessional ==
    /\ dex.pc = "professional"
    /\ dex' = AfterRules(dex, extract_professional_info(dex.text_content),
                         "professional_data", "education")
    /\ UNCHANGED <<GEMINI_API_KEY, appVars, cli>>

\* education_data = self.extract_education_info()
PatEducation ==
    /\ dex.pc = "education"
    /\ dex' = [dex EXCEPT !.pc = "certifications",
                          !.education_data = extract_education_info(dex.text_content)]
    /\ UNCHANGED <<GEMINI_API_KEY, appVars, cli>>

\* cert_data = self.extract_certifications()
PatCertifications ==
    /\ dex.pc = "certifications"
    /\ dex' = [dex EXCEPT !.pc = "technical",
                          !.cert_data = extract_certifications(dex.text_content)]
    /\ UNCHANGED <<GEMINI_API_KEY, appVars, cli>>

\* tech_data = self.extract_technical_proficiency()
PatTechnical ==
    /\ dex.pc = "technical"
    /\ dex' = [dex EXCEPT !.pc = "table",
                          !.tech_data = extract_technical_proficiency(dex.text_content)]
    /\ UNCHANGED <<GEMINI_API_KEY, appVars, cli>>

\* all_data = personal_data + ... + tech_data, and the DataFrame
PatTable ==
    /\ dex.pc = "table"
    /\ dex' = AfterTable(dex, BuildTablePattern(dex.personal_data
                                                \o dex.professional_data
                                                \o dex.education_data
                                                \o dex.cert_data \o dex.tech_data))
    /\ UNCHANGED <<GEMINI_API_KEY, appVars, cli>>

\* save_to_excel after process_document
PatSave ==
    /\ dex.pc = "save"
    /\ dex' = [dex EXCEPT !.pc = "preview", !.output = to_excel(dex.df),
                          !.stdout = @ \cup {"Data successfully extracted and saved"}]
    /\ UNCHANGED <<GEMINI_API_KEY, appVars, cli>>

\* __main__ after save_to_excel
PatPreview ==
    /\ dex.pc = "preview"
    /\ dex' = [dex EXCEPT !.pc = "exit",
                          !.stdout = @ \cup {"Extracted Data Preview", "Total records extracted"}]
    /\ UNCHANGED <<GEMINI_API_KEY, appVars, cli>>

InitPat ==
    /\ GEMINI_API_KEY \in BOOLEAN
    /\ AppStart
    /\ cli = CliOff
    /\ \E f \in PatFiles : dex = [PatOff EXCEPT !.pc = "main", !.pdf = f]

NextPat ==
    \/ PatMain
    \/ PatRead
    \/ PatPersonal
    \/ PatProfessional
    \/ PatEducation
    \/ PatCertifications
    \/ PatTechnical
    \/ PatTable
    \/ PatSave
    \/ PatPreview

SpecPat == InitPat /\ [][NextPat]_vars

\* The caller keeps the extractor and calls save_to_excel, hence
\* process_document, once more: what the first call left is remembered.
PatAgain ==
    /\ dex.pc = "exit"
    /\ ~dex.second
    /\ dex' = [dex EXCEPT !.pc = "read", !.second = TRUE,
                          !.first = [text_content |-> dex.text_content,
                                     structured_data |-> dex.structured_data,
                                     all_data |-> dex.personal_data
                                                  \o dex.professional_data
                                                  \o dex.education_data
                                                  \o dex.cert_data
                                                  \o dex.tech_data,
                                     df |-> dex.df]]
    /\ UNCHANGED <<GEMINI_API_KEY, appVars, cli>>

NextTwice == NextPat \/ PatAgain

SpecTwice == InitPat /\ [][NextTwice]_vars

\* ------------------------------------------------------------------ properties
SessionKeys == {"extracted_df", "run_extraction", "extractor_instance"}

\* C1: in the command-line program and in the form, when the use-AI flag
\* is false or the text read from the PDF is empty, the extraction step
\* returns an empty list, builds no Gemini client and makes no
\* generate_content call.
C1_NoCallWhenDisabledOrEmpty ==
    /\ (cli.pc \in {"table", "save", "preview", "exit", "crashed"}
          /\ (~cli.use_ai \/ cli.text_content = <<>>))
       => (cli.data = <<>> /\ ~cli.client /\ ~cli.remote)
    /\ \A s \in Sessions :
          (last_run[s].ran /\ (~last_run[s].use_ai \/ last_run[s].text = <<>>))
          => /\ ~last_run[s].called /\ ~last_run[s].client /\ ~last_run[s].remote
             /\ IsEmptyDf(last_run[s].df)

\* C2: the memoized result is keyed by the exact document text: a run that
\* is answered from the cache is answered with the entry stored for its own
\* text, never with one stored for another document.
C2_CacheKeyedByText ==
    \A s \in Sessions :
        (last_run[s].ran /\ last_run[s].hit)
        => last_run[s].hit_origin.text = last_run[s].text

\* C3: after an extraction run completes (records, no records or error),
\* whatever the session stores as extracted_df and whatever results table
\* the page shows is that run's table, never an earlier run's.
C3_ResultOverwrittenEachRun ==
    \A s \in Sessions :
        last_run[s].ran
        => /\ Has(session_state[s], "extracted_df")
              => session_state[s]["extracted_df"] = last_run[s].df
           /\ rendered[s].shown => rendered[s].table = last_run[s].df

\* C4: Clear Results leaves extracted_df, run_extraction and
\* extractor_instance absent and the cache empty, and the session's next
\* model-backed extraction after its Clear is not answered from the cache.
C4_ClearDiscardsAndInvalidates ==
    [][\A s \in Sessions :
          /\ ClickClear(s)
             => /\ SessionKeys \cap DOMAIN session_state'[s] = {}
                /\ cache_data' = <<>>
          /\ (cleared[s] /\ last_run'[s].ran /\ last_run'[s].called)
             => ~last_run'[s].hit]_vars

\* C5: no state is shared across users: a session's extraction is answered
\* from the cache only with an entry that the same session stored.
C5_NoSharingAcrossUsers ==
    \A s \in Sessions :
        (last_run[s].ran /\ last_run[s].hit)
        => last_run[s].hit_origin.session = s

\* The date strings the four date rules capture in text.
CapturedDates(text) ==
    {Group(text, Search(text, p), 1) :
        p \in {q \in {dob_pattern, first_job_pattern, current_join_pattern,
                      prev_join_pattern} : Search(text, q).ok}}

RuleSteps == {"professional", "education", "certifications", "technical"}

TableSteps == {"save", "preview", "exit"}

\* C6: when a date rule captures a string that is not a valid
\* '<Month> <day>, <year>' date, no unhandled error is raised: the rule
\* groups run to their end and the pipeline yields a table.
C6_InvalidDateContributesNothing ==
    (dex.pc \notin {"off", "main", "read", "personal"}
       /\ \E cs \in CapturedDates(dex.text_content) : ~Strptime(cs).ok)
    => /\ dex.pc # "crashed"
       /\ dex.pc \in TableSteps => ~IsEmptyDf(dex.df)

ContainsText(text, cs) ==
    \E i \in 1..(Len(text) + 1 - Len(cs)) : SubSeq(text, i, i + Len(cs) - 1) = cs

\* C7: for a text containing 'Vijay Kumar was born on March 15, 1989, in
\* Jaipur, Rajasthan' the identity rules emit First Name=Vijay, Last
\* Name=Kumar, Date of Birth=15-Mar-89, Birth City=Jaipur and Birth
\* State=Rajasthan.
C7_SampleSentenceRecords ==
    (dex.pc \notin {"off", "main", "read", "personal"}
       /\ ContainsText(dex.text_content, SampleSentence))
    => \A kv \in {<<"First Name", "Vijay">>, <<"Last Name", "Kumar">>,
                  <<"Date of Birth", "15-Mar-89">>, <<"Birth City", "Jaipur">>,
                  <<"Birth State", "Rajasthan">>} :
          \E i \in 1..Len(dex.personal_data) :
              /\ dex.personal_data[i].key = kv[1]
              /\ dex.personal_data[i].value = kv[2]

\* C8: when the text read is the empty string, each pipeline (pattern
\* program, command-line program, form) builds a table with zero rows and
\* does not fail.
C8_EmptyTextEmptyTable ==
    /\ (dex.pc \in TableSteps \cup {"crashed"} /\ dex.text_content = <<>>)
       => (dex.pc # "crashed" /\ IsEmptyDf(dex.df))
    /\ (cli.pc \in {"save", "preview", "crashed"} /\ cli.text_content = <<>>)
       => (cli.pc # "crashed" /\ IsEmptyDf(cli.df))
    /\ \A s \in Sessions :
          (last_run[s].ran /\ last_run[s].text = <<>>)
          => (last_run[s].exc = None /\ IsEmptyDf(last_run[s].df))

InputError(file) == ~file.exists \/ ~file.readable

\* C9: in each command-line program, when the input file is missing or the
\* PDF cannot be read, the error is reported, no rule group is applied, no
\* remote call is made and no spreadsheet is written.
C9_InputErrorHaltsPipeline ==
    /\ (InputError(dex.pdf) /\ dex.pc \notin {"off", "main", "read"})
       => /\ "Error reading PDF" \in dex.stdout
          /\ dex.pc \notin RuleSteps \cup {"table", "save", "preview"}
          /\ dex.output = NoPayload
    /\ (InputError(cli.pdf) /\ cli.pc \notin {"off", "main"})
       => /\ cli.stdout \cap {"Error: The specified PDF file was not found",
                              "Error reading PDF"} # {}
          /\ ~cli.client /\ ~cli.remote
          /\ cli.output = NoPayload

\* C10: in every variant, whenever the table built by process_document has
\* zero rows, the export is skipped, the absence of data is reported and
\* no spreadsheet file or download payload is produced.
C10_EmptyTableNeverExported ==
    /\ \A s \in Sessions :
          (last_run[s].ran /\ last_run[s].exc = None /\ IsEmptyDf(last_run[s].df))
          => /\ "No structured data could be extracted" \in rendered[s].msgs
             /\ rendered[s].download = NoPayload
    /\ (cli.pc \in {"preview", "exit"} /\ cli.pdf.exists /\ IsEmptyDf(cli.df))
       => /\ "No data extracted. Skipping Excel save." \in cli.stdout
          /\ cli.output = NoPayload
    /\ (dex.pc \in {"preview", "exit"} /\ IsEmptyDf(dex.df))
       => dex.output = NoPayload

\* The table the Record Table Builder is to make of the record list data.
IsTableOf(df, data) ==
    /\ df.columns = <<"#", "Key", "Value", "Comments">>
    /\ Len(df.rows) = Len(data)
    /\ \A i \in 1..Len(data) :
          df.rows[i] = <<i, data[i].key, data[i].value, data[i].comments>>

\* C11: for every list of N >= 0 records an extraction strategy returned,
\* the table built has N rows, row i carries i and the i-th record, and the
\* columns are (#, Key, Value, Comments), also when N = 0.
C11_TableFollowsRecords ==
    /\ cli.pc \in {"save", "preview"} => IsTableOf(cli.df, cli.data)
    /\ dex.pc \in TableSteps
       => IsTableOf(dex.df, dex.personal_data \o dex.professional_data
                            \o dex.education_data \o dex.cert_data
                            \o dex.tech_data)
    /\ \A s \in Sessions :
          (last_run[s].ran /\ last_run[s].exc = None)
          => IsTableOf(last_run[s].df, last_run[s].data)


\* The ways extract_with_gemini fails that the failure-handling contract names.
FailureOutcomes == {"client_error", "api_error", "json_error"}

\* C12: in the command-line program and in the form, a client-construction
\* failure, an API failure and an answer that is not valid JSON each make
\* extract_with_gemini return the empty list and report an error on the
\* caller's error channel; the step makes at most one remote call and the
\* pipeline goes on to build an empty table.
C12_FailuresReportedAndEmpty ==
    /\ (cli.pc \in {"table", "save", "preview", "exit"}
        /\ cli.outcome \in FailureOutcomes)
       => /\ cli.data = <<>>
          /\ cli.stdout \cap {"Error initializing Gemini client",
                              "Error with Gemini API",
                              "Error decoding JSON response from Gemini"} # {}
          /\ cli.pc # "table" => (cli.exc = None /\ IsEmptyDf(cli.df))
    /\ \A s \in Sessions :
          (last_run[s].ran /\ last_run[s].outcome \in FailureOutcomes)
          => /\ last_run[s].data = <<>>
             /\ last_run[s].exc = None
             /\ IsEmptyDf(last_run[s].df)
             /\ \E m \in rendered[s].msgs :
                   m \notin {"No structured data could be extracted",
                             "GEMINI_API_KEY not found"}


\* C13: without GEMINI_API_KEY the model-backed strategy is disabled and the
\* absence is a message, never a crash.  In the form every page carries the
\* banner, no run ever uses the strategy, and a click on Extract with the AI
\* box ticked is refused with a message, sets no run_extraction, starts no
\* run and changes nothing the session keeps.  The command-line run with
\* use_ai reports the client failure, makes no remote call, never crashes
\* and ends with an empty list, an empty table and no file written.
C13_MissingKeyDisablesStrategy ==
    /\ [](~GEMINI_API_KEY
          => /\ \A s \in {1} :
                   /\ "GEMINI_API_KEY not found" \in rendered[s].msgs
                   /\ ~(last_run[s].ran /\ last_run[s].use_ai)
                   /\ ~last_run[s].client /\ ~last_run[s].remote
                   /\ ~(Has(session_state[s], "run_extraction")
                        /\ session_state[s]["run_extraction"])
             /\ (cli.use_ai /\ cli.pdf.exists)
                => /\ cli.pc # "crashed" /\ cli.exc = None
                   /\ ~cli.client /\ ~cli.remote
                   /\ cli.pc \in {"table", "save", "preview", "exit"}
                      => /\ "Error initializing Gemini client" \in cli.stdout
                         /\ cli.data = <<>>
                   /\ cli.pc \in {"preview", "exit"}
                      => /\ IsEmptyDf(cli.df)
                         /\ cli.output = NoPayload
                         /\ "No data extracted. Skipping Excel save."
                               \in cli.stdout)
    /\ [][\A s \in {1} :
             (~GEMINI_API_KEY /\ use_ai_checkbox[s] /\ pdf_uploader[s] # NoFile
              /\ ClickExtract(s))
             => /\ UNCHANGED <<session_state, cache_data>>
                /\ ~last_run'[s].ran
                /\ "Cannot run AI extraction without the GEMINI_API_KEY"
                      \in rendered'[s].msgs]_vars

\* C13 happens: with no key, the form has refused an Extract click with the
\* AI box ticked and a file uploaded, and the command-line run with use_ai
\* on an existing file has ended.
C13_Witness ==
    /\ ~GEMINI_API_KEY
    /\ use_ai_checkbox[1] /\ pdf_uploader[1] # NoFile
    /\ "Cannot run AI extraction without the GEMINI_API_KEY" \in rendered[1].msgs
    /\ cli.pc = "exit" /\ cli.use_ai /\ cli.pdf.exists
    /\ "Error initializing Gemini client" \in cli.stdout


\* C14: no error leaves a top-level driver as an unhandled exception:
\* whatever reading, extraction, table building and export do (a valid JSON
\* answer that is no array of key/value/comments objects and a captured date
\* that does not parse included), neither command-line program ends by an
\* exception, and a form run that raised ends by a rendered error message.
C14_NoUnhandledCrash ==
    /\ cli.pc # "crashed" /\ cli.exc = None
    /\ dex.pc # "crashed" /\ dex.exc = None
    /\ \A s \in Sessions :
          (last_run[s].ran /\ last_run[s].exc # None)
          => "An error occurred during file processing" \in rendered[s].msgs


RECURSIVE PagesInOrder(_, _)
\* The text the Text Reader is to return: the texts of the first n pages in
\* order, a newline after each, a page without text contributing nothing.
PagesInOrder(pages, n) ==
    IF n = 0 THEN <<>>
    ELSE PagesInOrder(pages, n - 1)
         \o (IF pages[n] = <<>> THEN <<>> ELSE pages[n] \o <<NL>>)

\* C15: for every readable PDF, each of the three extract_text_from_pdf
\* leaves in text_content the page texts in page order with a newline after
\* each page, a page without text contributing nothing.
C15_ReaderJoinsPagesWithNewlines ==
    /\ (cli.pc \in {"extract", "table", "save", "preview", "exit"}
        /\ cli.pdf.exists /\ cli.pdf.readable)
       => cli.text_content = PagesInOrder(cli.pdf.pages, Len(cli.pdf.pages))
    /\ (dex.pc \notin {"off", "main", "read"}
        /\ dex.pdf.exists /\ dex.pdf.readable)
       => dex.text_content = PagesInOrder(dex.pdf.pages, Len(dex.pdf.pages))
    /\ \A s \in Sessions :
          (last_run[s].ran /\ pdf_uploader[s].readable)
          => /\ last_run[s].text
                  = PagesInOrder(pdf_uploader[s].pages, Len(pdf_uploader[s].pages))
             /\ session_state[s]["extractor_instance"].text_content
                  = last_run[s].text


\* The records of the list data whose key is one of keys, in order.
KeyedBy(data, keys) ==
    LET Test(r) == r.key \in keys IN SelectSeq(data, Test)

\* The records a rule without date parsing emits on its own are in the list.
OwnRecordsKept(text, personal, professional, education, cert, tech) ==
    /\ KeyedBy(personal, {"First Name", "Last Name"}) = NameRule(text)
    /\ KeyedBy(personal, {"Birth City", "Birth State"}) = BirthRule(text)
    /\ KeyedBy(personal, {"Age"}) = AgeRule(text)
    /\ KeyedBy(personal, {"Blood Group"}) = BloodRule(text)
    /\ KeyedBy(personal, {"Nationality"}) = NationalityRule(text)
    /\ KeyedBy(professional, {"Current Organization"}) = CurrentOrgRule(text)
    /\ KeyedBy(professional, {"Current Designation"}) = CurrentDesigRule(text)
    /\ KeyedBy(professional, {"Previous Organization"}) = PrevOrgRule(text)
    /\ KeyedBy(professional, {"Previous end year"}) = PrevEndRule(text)
    /\ education = extract_education_info(text)
    /\ cert = extract_certifications(text)
    /\ tech = extract_technical_proficiency(text)

\* C16: rules are isolated: whatever the text, the run of the rule catalog
\* is ended by no rule (a rule that fails contributes no record and the
\* next rule is evaluated), so the run reaches the table with the records
\* every other rule emits on its own; a date rule whose pattern matches
\* nowhere contributes no record.
C16_RuleIsolation ==
    /\ dex.pc # "crashed"
    /\ dex.pc \in {"table"} \cup TableSteps
       => /\ OwnRecordsKept(dex.text_content, dex.personal_data,
                            dex.professional_data, dex.education_data,
                            dex.cert_data, dex.tech_data)
          /\ ~Search(dex.text_content, dob_pattern).ok
             => KeyedBy(dex.personal_data, {"Date of Birth"}) = <<>>
          /\ ~Search(dex.text_content, current_join_pattern).ok
             => KeyedBy(dex.professional_data, {"Current Joining Date"}) = <<>>


\* C17: the Pattern Extractor is idempotent: a second process_document on
\* the same extractor and the same document yields the record lists of the
\* first, in the same order, and the same table; and no rule group changes
\* text_content or structured_data.
C17_PatternExtractorIdempotent ==
    /\ []((dex.second /\ dex.pc \in {"table"} \cup TableSteps)
          => /\ dex.personal_data \o dex.professional_data \o dex.education_data
                  \o dex.cert_data \o dex.tech_data = dex.first.all_data
             /\ dex.text_content = dex.first.text_content
             /\ dex.structured_data = dex.first.structured_data
             /\ dex.pc \in TableSteps => dex.df = dex.first.df)
    /\ []((dex.second /\ dex.first.df.rows # <<>>) => dex.pc # "crashed")
    /\ [][dex.pc \in {"personal"} \cup RuleSteps
          => /\ dex'.text_content = dex.text_content
             /\ dex'.structured_data = dex.structured_data]_vars

\* C17 happens: the second run of a document in which rules matched has
\* ended.
C17_Witness ==
    /\ dex.second /\ dex.pc = "exit"
    /\ dex.personal_data # <<>>
    /\ dex.text_content # <<>>


\* The Extract click of session s is accepted: a file is uploaded, and the
\* key is set or the AI box is not ticked.
Accepted(s) ==
    /\ pdf_uploader[s] # NoFile
    /\ GEMINI_API_KEY \/ ~use_ai_checkbox[s]

\* C18: the run flag of the form.  After every pass run_extraction is
\* absent or False; an accepted Extract click runs the pipeline in its pass,
\* once, on the uploaded file; a pass that is not an accepted Extract
\* click runs nothing; a rejected Extract click leaves run_extraction and
\* the stored result as they were.
C18_RunFlag ==
    /\ [](\A s \in {1} :
            ~(Has(session_state[s], "run_extraction")
              /\ session_state[s]["run_extraction"]))
    /\ [][\A s \in {1} :
             /\ (Accepted(s) /\ ClickExtract(s))
                => /\ last_run'[s].ran
                   /\ Has(session_state'[s], "run_extraction")
                   /\ session_state'[s]["run_extraction"] = FALSE
                   /\ session_state'[s]["extractor_instance"].uploaded_file
                        = pdf_uploader[s]
             /\ (~Accepted(s) /\ ClickExtract(s))
                => /\ ~last_run'[s].ran
                   /\ UNCHANGED session_state
             /\ (Upload(s) \/ ToggleAI(s) \/ ClickClear(s) \/ ClickDownload(s))
                => ~last_run'[s].ran]_vars

\* C18 happens: an accepted Extract click has run the pipeline and left
\* run_extraction False with a result stored.
C18_Witness ==
    /\ last_run[1].ran
    /\ Has(session_state[1], "run_extraction")
    /\ session_state[1]["run_extraction"] = FALSE
    /\ Has(session_state[1], "extracted_df")


\* C19: the page of the form is consistent: whenever the results table is
\* shown, the stored extracted_df has rows and is the table shown, and the
\* raw-text panel shows the text_content of the run that produced it.  The
\* panel shows the text of the extractor the latest run stored, so, in the
\* pass of a run, the table shown is to be that run's table beside that
\* run's text, and a pass without a run keeps both or discards both.
C19_TableAndRawTextOfOneRun ==
    /\ [](\A s \in Sessions :
            rendered[s].shown
            => /\ Has(session_state[s], "extracted_df")
               /\ ~IsEmptyDf(session_state[s]["extracted_df"])
               /\ rendered[s].table = session_state[s]["extracted_df"]
               /\ last_run[s].ran
                  => /\ rendered[s].table = last_run[s].df
                     /\ rendered[s].raw
                          = [widget |-> "text_area", text |-> last_run[s].text])
    /\ [][\A s \in Sessions :
             (~last_run'[s].ran /\ session_state'[s] # session_state[s])
             => SessionKeys \cap DOMAIN session_state'[s] = {}]_vars

====
